---- MODULE Spec2Model ----
(***************************************************************************)
(* Model of notebooks/carbon_savings.ipynb of GreenSKU-Model: the cluster   *)
(* aggregation process_csv, the cluster / data-center savings cells and     *)
(* the carbon-intensity sweep.                                              *)
(*                                                                          *)
(* Numbers.  Cluster sizes, buffers and core counts are integers.  The      *)
(* growth buffer is a Python float product handed to math.ceil, so the      *)
(* product and the quotient behind it are modelled as IEEE-754 binary64     *)
(* operations (exact result rounded to 53 bits, ties to even) over          *)
(* big naturals (limbs and bits).  Carbon values live on a grid of small    *)
(* integers and the failure rates on halves (AfrDen), where the float       *)
(* products and sums of process_csv are exact; the quotients (percentages,  *)
(* averages) are kept as exact ratios, with NaN and +/-inf where a float    *)
(* division by zero produces them.                                          *)
(***************************************************************************)
EXTENDS Integers, Sequences, FiniteSets, TLC

(***************************************************************************)
(* Big naturals.  A natural number is held either as limbs (digits in base  *)
(* 2^LimbBits, least significant first) for multiplication and division,    *)
(* or as bits (binary digits, least significant first) for rounding.        *)
(***************************************************************************)
LimbBits == 15

RECURSIVE Pow2(_)
Pow2(n) == IF n = 0 THEN 1 ELSE 2 * Pow2(n - 1)

LimbBase == Pow2(LimbBits)

Abs(n) == IF n < 0 THEN -n ELSE n

Zeros(n) == [i \in 1..n |-> 0]

RECURSIVE BitsToNat(_)
BitsToNat(b) == IF b = << >> THEN 0 ELSE b[1] + 2 * BitsToNat(Tail(b))

NatToLimbs(n) == << n % LimbBase, (n \div LimbBase) % LimbBase, n \div (LimbBase * LimbBase) >>

LimbsToBits(ls) ==
    [i \in 1..(LimbBits * Len(ls)) |->
        (ls[((i - 1) \div LimbBits) + 1] \div Pow2((i - 1) % LimbBits)) % 2]

BitsToLimbs(b) ==
    LET n == (Len(b) + LimbBits - 1) \div LimbBits
    IN  [j \in 1..n |->
            LET lo == (j - 1) * LimbBits + 1
                hi == IF j * LimbBits > Len(b) THEN Len(b) ELSE j * LimbBits
            IN  BitsToNat(SubSeq(b, lo, hi))]

\* Number of significant bits.
BitLen(b) ==
    LET ones == {i \in 1..Len(b) : b[i] = 1}
    IN  IF ones = {} THEN 0 ELSE CHOOSE i \in ones : \A j \in ones : j <= i

\* ls * n for limbs ls and a natural n < LimbBase (schoolbook, with carry).
RECURSIVE MulCarry(_, _, _, _)
MulCarry(ls, n, i, carry) ==
    IF i > Len(ls) THEN << carry >>
    ELSE LET t == n * ls[i] + carry
         IN  << t % LimbBase >> \o MulCarry(ls, n, i + 1, t \div LimbBase)

MulSmall(ls, n) == MulCarry(ls, n, 1, 0)

\* Long division of limbs by a natural 0 < d < LimbBase, most significant
\* limb first: [q |-> quotient limbs, r |-> remainder].
RECURSIVE DivStep(_, _, _, _, _)
DivStep(ls, d, i, r, q) ==
    IF i = 0 THEN [q |-> q, r |-> r]
    ELSE LET t == r * LimbBase + ls[i]
         IN  DivStep(ls, d, i - 1, t % d, << t \div d >> \o q)

DivSmall(ls, d) == DivStep(ls, d, Len(ls), 0, << >>)

\* b + 1 on bits (one bit longer when b is all ones).
Inc(b) ==
    LET zs == {i \in 1..Len(b) : b[i] = 0}
    IN  IF zs = {} THEN Zeros(Len(b)) \o << 1 >>
        ELSE LET z == CHOOSE i \in zs : \A j \in zs : i <= j
             IN  [i \in 1..Len(b) |-> IF i < z THEN 0 ELSE IF i = z THEN 1 ELSE b[i]]

(***************************************************************************)
(* binary64 values: sign * man * 2^exp with man a 53-bit bit string whose   *)
(* top bit is 1 (or << >> for zero).  The exponent range is not modelled:   *)
(* every value of the model is far from overflow and underflow.             *)
(***************************************************************************)
MantBits == 53

\* Zero limbs put under the dividend so that the quotient carries guard and
\* sticky bits below its 53 significant ones.
GuardLimbs == 4

\* The binary64 nearest to sign * bits * 2^exp, ties to even; sticky says
\* that the exact value lies strictly above bits * 2^exp (and below the
\* next integer multiple of 2^exp).
RoundToDouble(sign, bits, exp, sticky) ==
    LET L == BitLen(bits)
    IN  IF L = 0 THEN [sign |-> 1, man |-> << >>, exp |-> 0]
        ELSE IF L <= MantBits
        THEN [sign |-> sign, man |-> Zeros(MantBits - L) \o SubSeq(bits, 1, L),
              exp |-> exp - (MantBits - L)]
        ELSE LET s     == L - MantBits
                 hi    == SubSeq(bits, s + 1, L)
                 guard == bits[s]
                 rest  == sticky \/ \E i \in 1..(s - 1) : bits[i] = 1
                 up    == guard = 1 /\ (rest \/ hi[1] = 1)
                 m     == IF up THEN Inc(hi) ELSE hi
             IN  IF Len(m) > MantBits
                 THEN [sign |-> sign, man |-> Tail(m), exp |-> exp + s + 1]
                 ELSE [sign |-> sign, man |-> m, exp |-> exp + s]

\* float(n) for a Python int n.
FromInt(n) ==
    RoundToDouble(IF n < 0 THEN -1 ELSE 1, LimbsToBits(NatToLimbs(Abs(n))), 0, FALSE)

\* float(n) * x: the exact product, rounded once.
FMulInt(n, x) ==
    RoundToDouble(IF n < 0 THEN -(x.sign) ELSE x.sign,
                  LimbsToBits(MulSmall(BitsToLimbs(x.man), Abs(n))), x.exp, FALSE)

\* x / float(d) for an int d > 0: the exact quotient, rounded once.
FDivInt(x, d) ==
    LET qr == DivSmall(Zeros(GuardLimbs) \o BitsToLimbs(x.man), d)
    IN  RoundToDouble(x.sign, LimbsToBits(qr.q), x.exp - GuardLimbs * LimbBits, qr.r # 0)

\* math.ceil(x) as a Python int.
Ceil(x) ==
    IF x.man = << >> THEN 0
    ELSE IF x.exp >= 0 THEN x.sign * BitsToNat(Zeros(x.exp) \o x.man)
    ELSE LET k    == -(x.exp)
             L    == Len(x.man)
             int  == IF k >= L THEN 0 ELSE BitsToNat(SubSeq(x.man, k + 1, L))
             part == \E i \in 1..(IF k >= L THEN L ELSE k) : x.man[i] = 1
         IN  IF x.sign = 1 THEN (IF part THEN int + 1 ELSE int) ELSE -int

(***************************************************************************)
(* Float quotients.  A value [n, d]: the ratio n / d in lowest terms with   *)
(* d > 0, or with d = 0 what a float division by zero leaves: NaN (n = 0),  *)
(* +inf (n = 1), -inf (n = -1).                                             *)
(***************************************************************************)
RECURSIVE GCD(_, _)
GCD(a, b) == IF b = 0 THEN a ELSE GCD(b, a % b)

LCM(a, b) == (a \div GCD(a, b)) * b

Sign(a) == IF a > 0 THEN 1 ELSE IF a < 0 THEN -1 ELSE 0

NaN == [n |-> 0, d |-> 0]

Inf(s) == [n |-> s, d |-> 0]

IsNaN(q) == q.d = 0 /\ q.n = 0

IsInf(q) == q.d = 0 /\ q.n # 0

IsFinite(q) == q.d > 0

\* a / b on floats holding the integers a and b.
Quot(a, b) ==
    IF b = 0 THEN [n |-> Sign(a), d |-> 0]
    ELSE LET g == GCD(Abs(a), Abs(b))
         IN  [n |-> Sign(a) * Sign(b) * (Abs(a) \div g), d |-> Abs(b) \div g]

QInt(k) == [n |-> k, d |-> 1]

\* x * w for a float quotient x and an integer w.
QScale(x, w) ==
    IF IsNaN(x) THEN NaN
    ELSE IF IsInf(x) THEN (IF w = 0 THEN NaN ELSE Inf(x.n * Sign(w)))
    ELSE LET g == GCD(Abs(w), x.d)
         IN  Quot(x.n * Sign(w) * (Abs(w) \div g), x.d \div g)

\* x / k for a float quotient x and an integer k # 0.
QDivInt(x, k) ==
    IF IsNaN(x) THEN NaN
    ELSE IF IsInf(x) THEN Inf(x.n * Sign(k))
    ELSE LET g == GCD(Abs(x.n), Abs(k))
         IN  Quot(Sign(k) * (x.n \div g), x.d * (Abs(k) \div g))

QAdd(x, y) ==
    IF IsNaN(x) \/ IsNaN(y) THEN NaN
    ELSE IF IsInf(x) /\ IsInf(y) THEN (IF x.n = y.n THEN x ELSE NaN)
    ELSE IF IsInf(x) THEN x
    ELSE IF IsInf(y) THEN y
    ELSE LET l == LCM(x.d, y.d)
         IN  Quot(x.n * (l \div x.d) + y.n * (l \div y.d), l)

RECURSIVE QSum(_)
QSum(xs) == IF xs = << >> THEN QInt(0) ELSE QAdd(xs[1], QSum(Tail(xs)))

\* x <= y on floats (false as soon as one side is NaN).
QLeq(x, y) ==
    /\ ~IsNaN(x)
    /\ ~IsNaN(y)
    /\ IF IsInf(x) THEN x.n = -1 \/ y = x
       ELSE IF IsInf(y) THEN y.n = 1
       ELSE x.n * y.d <= y.n * x.d

RECURSIVE SumInts(_)
SumInts(ws) == IF ws = << >> THEN 0 ELSE ws[1] + SumInts(Tail(ws))

RECURSIVE SelectSeq2(_, _)
SelectSeq2(xs, keep) ==
    IF xs = << >> THEN << >>
    ELSE (IF keep[1] THEN << xs[1] >> ELSE << >>) \o SelectSeq2(Tail(xs), Tail(keep))

(***************************************************************************)
(* Server designs.  carbon_model.ServerCarbon and                           *)
(* maintenance_model.ServerMaintenance are imported by the notebook and     *)
(* seen here through their getters only: a design is the record of what     *)
(* the getters report.  embodied: embodied carbon per server; energy:       *)
(* operational carbon per server and per unit of emissions_factor (total    *)
(* server power times PUE over the lifetime); vcores; afr: the annualized   *)
(* failure rate in units of 1 / AfrDen.                                     *)
(***************************************************************************)
AfrDen == 2

EmbodiedValues == {0, 3}

EnergyValues == {0, 1}

VCoreValues == {1, 5}

AfrValues == {0, 1}

Designs ==
    [embodied : EmbodiedValues, energy : EnergyValues,
     vcores : VCoreValues, afr : AfrValues]

get_operational_carbon(config, params) == config.energy * params.emissions_factor

get_per_server_carbon(config, params) ==
    config.embodied + get_operational_carbon(config, params)

get_vcores(config) == config.vcores

\* The failure rate, in units of 1 / AfrDen.
get_AFRs(config) == config.afr

(***************************************************************************)
(* Cluster rows and the growth buffers of process_csv.                      *)
(***************************************************************************)
Row(o, b, g) ==
    [OriginalClusterSize |-> o, NewClusterSize_Baseline |-> b,
     NewClusterSize_GreenSKU |-> g]

RowSet ==
    { Row(0, 0, 0), Row(95, 95, 0), Row(100, 100, 0), Row(100, 50, 50),
      Row(100, 90, 0), Row(100, 0, 20), Row(300, 210, 0) }

\* Rows of a file that holds a negative size in one of the three columns.
SignedRowSet ==
    { Row(100, 100, 0), Row(-100, 100, 0), Row(100, -50, 50), Row(100, 50, -50) }

MaxRows == 2

Tables == UNION { [1..n -> RowSet] : n \in 0..MaxRows }

\* The buffer fractions a caller passes, in hundredths: 0.1 (the default)
\* and 0.07.
BufferPercents == {10, 7}

\* The float that the literal p / 100 denotes: the binary64 nearest to it.
BufferValue(p) == FDivInt(FromInt(p), 100)

\* df['num_buffer'] = size * buffer; math.ceil of it.
num_og_buffer(size, buffer) == Ceil(FMulInt(size, buffer))

\* (nb * og_vcores + ng * new_vcores) * buffer / og_vcores; math.ceil of it.
total_num_buffer(cores, og_vcores, buffer) ==
    Ceil(FDivInt(FMulInt(cores, buffer), og_vcores))

\* The arguments the model's rows and designs give the two buffers, and the
\* buffers memoised over them.
SizeArgs == {r.OriginalClusterSize : r \in RowSet \cup SignedRowSet}

CoreArgs ==
    {r.NewClusterSize_Baseline * v0 + r.NewClusterSize_GreenSKU * v1 :
        r \in RowSet \cup SignedRowSet, v0 \in VCoreValues, v1 \in VCoreValues}

OgBufferMemo ==
    [a \in SizeArgs \X BufferPercents |-> num_og_buffer(a[1], BufferValue(a[2]))]
        @@ << >>

TotalBufferMemo ==
    [a \in CoreArgs \X VCoreValues \X BufferPercents |->
        total_num_buffer(a[1], a[2], BufferValue(a[3]))]
        @@ << >>

(***************************************************************************)
(* process_csv.  Carbon totals are in units of 1 / AfrDen: the overhead     *)
(* 1 + AFR is held as AfrDen + afr.                                         *)
(***************************************************************************)
\* 1 + get_AFRs().
maintenance_overhead(config) == AfrDen + get_AFRs(config)

\* df['start_og_carbon'].
start_og_carbon(size, og_buffer, og_server_carbon, og_maintenance_overhead) ==
    (size + og_buffer) * og_server_carbon * og_maintenance_overhead

\* total_carbon with the buffer servers charged as servers of the new design.
TotalCarbonBufferAtNew(nb, buffer, ng, og_server_carbon, og_maintenance_overhead, new_server_carbon, new_maintenance_overhead) ==
    nb * og_server_carbon * og_maintenance_overhead
        + (ng + buffer) * new_server_carbon * new_maintenance_overhead

\* df['total_carbon'].
total_carbon(nb, buffer, ng, og_server_carbon, og_maintenance_overhead, new_server_carbon, new_maintenance_overhead) ==
    (nb + buffer) * og_server_carbon * og_maintenance_overhead
        + ng * new_server_carbon * new_maintenance_overhead

\* The carbon added, not saved, as a percentage of the baseline total.
PercAddedCarbon(start, total) == Quot((total - start) * 100, start)

\* df['perc_saved_carbon'].
perc_saved_carbon(start, total) == Quot((start - total) * 100, start)

\* One row of df after lines 421-433, its two buffers and the designs' figures given.
RowOfDf(row, og_b, tot_b, og_server_carbon, og_maintenance_overhead, new_server_carbon, new_maintenance_overhead) ==
    LET start == start_og_carbon(row.OriginalClusterSize, og_b, og_server_carbon,
                                 og_maintenance_overhead)
        total == total_carbon(row.NewClusterSize_Baseline, tot_b,
                              row.NewClusterSize_GreenSKU,
                              og_server_carbon, og_maintenance_overhead,
                              new_server_carbon, new_maintenance_overhead)
    IN  [OriginalClusterSize     |-> row.OriginalClusterSize,
         NewClusterSize_Baseline |-> row.NewClusterSize_Baseline,
         NewClusterSize_GreenSKU |-> row.NewClusterSize_GreenSKU,
         num_og_buffer     |-> og_b,
         start_og_carbon   |-> start,
         total_num_buffer  |-> tot_b,
         total_carbon      |-> total,
         perc_saved_carbon |-> perc_saved_carbon(start, total)]

\* One row of df: the buffers (lines 422-423, 428-429) and the figures of the
\* two designs (lines 413-418).
ProcessRow(row, og, new, params, buffer) ==
    RowOfDf(row,
            OgBufferMemo[<< row.OriginalClusterSize, buffer >>],
            TotalBufferMemo[<< row.NewClusterSize_Baseline * get_vcores(og)
                                  + row.NewClusterSize_GreenSKU * get_vcores(new),
                               get_vcores(og), buffer >>],
            get_per_server_carbon(og, params), maintenance_overhead(og),
            get_per_server_carbon(new, params), maintenance_overhead(new))

Column(df, name) == [i \in 1..Len(df) |-> df[i][name]]

\* pandas Series.mean(): NaN entries are skipped (skipna), an empty or
\* all-NaN column gives NaN.
SeriesMean(xs) ==
    LET kept == SelectSeq2(xs, [i \in 1..Len(xs) |-> ~IsNaN(xs[i])])
    IN  IF kept = << >> THEN NaN ELSE QDivInt(QSum(kept), Len(kept))

\* numpy.average with the weights dropped.
NpAverageUnweighted(xs, ws) == QDivInt(QSum(xs), Len(ws))

\* numpy.average(xs, weights = ws) for weights that do not sum to zero.
np_average(xs, ws) ==
    QDivInt(QSum([i \in 1..Len(xs) |-> QScale(xs[i], ws[i])]), SumInts(ws))

\* The rollups with the weighted average evaluated only when it is asked for.
RollupOnDemand(frame, weight_cluster) ==
    IF weight_cluster /\ SumInts(Column(frame, "OriginalClusterSize")) = 0
    THEN [status |-> "ZeroDivisionError", df |-> frame, value |-> NaN]
    ELSE [status |-> "ok", df |-> frame,
          value  |-> IF weight_cluster
                     THEN np_average(Column(frame, "perc_saved_carbon"),
                                     Column(frame, "OriginalClusterSize"))
                     ELSE SeriesMean(Column(frame, "perc_saved_carbon"))]

\* The two rollups of a data frame: [status, df, value].  numpy.average
\* raises ZeroDivisionError when the weights sum to zero, whichever rollup
\* was asked for.
Rollup(frame, weight_cluster) ==
    LET percs   == Column(frame, "perc_saved_carbon")
        weights == Column(frame, "OriginalClusterSize")
    IN  IF SumInts(weights) = 0
        THEN [status |-> "ZeroDivisionError", df |-> frame, value |-> NaN]
        ELSE [status |-> "ok", df |-> frame,
              value  |-> IF weight_cluster THEN np_average(percs, weights)
                         ELSE SeriesMean(percs)]

\* The call.
process_csv(csv, og_config, new_config, params, buffer, weight_cluster) ==
    Rollup([i \in 1..Len(csv) |->
               ProcessRow(csv[i], og_config, new_config, params, buffer)],
           weight_cluster)

(***************************************************************************)
(* State.                                                                   *)
(***************************************************************************)
VARIABLES
    pc,            \* where the caller, or the notebook, stands
    cluster_data,  \* the rows of the cluster csv file
    og_config,     \* the design behind the og_config file of the last call
    new_config,    \* the design behind the new_config file of the last call
    args,          \* the remaining arguments of the last call of process_csv
    df,            \* the data frame it returned
    avg,           \* the average it returned
    EVAL_PARAMS,            \* the notebook's parameter dictionary
    plot_configs,           \* the designs behind plot_configs, baseline first
    cluster_savings,        \* the notebook's globals, as the cells assign them
    cluster_dc_fraction,
    dc_savings,
    CI_steps,
    override_params,
    trace_config_data,
    config_carbon_savings,
    config_idx,             \* position of the loop over plot_configs[1:]
    step_idx,               \* position of the loop over CI_steps
    dc_data_csv,            \* the records of a data-centre csv file
    region_name,            \* the region asked of get_dc_region_intensity
    intensity,              \* the intensity, or the average, returned
    configs,                \* the per-core figures behind calculate_steps' configs
    frac,                   \* calculate_steps' frac (None when not given)
    to_first,               \* calculate_steps' to_first
    info,                   \* the all_info it returned
    savings                 \* the all_savings it returned

csv_vars == << cluster_data, og_config, new_config, args, df, avg >>

nb_vars ==
    << EVAL_PARAMS, plot_configs, cluster_savings, cluster_dc_fraction,
       dc_savings, CI_steps, override_params, trace_config_data,
       config_carbon_savings, config_idx, step_idx >>

\* The arguments and results of the notebook's other functions.
fn_vars == << dc_data_csv, region_name, intensity, configs, frac, to_first, info, savings >>

vars == << pc, csv_vars, nb_vars, fn_vars >>

CsvCI == {0, 1}

NoArgs == [params |-> [emissions_factor |-> 0], buffer |-> 0, weight_cluster |-> FALSE]

\* get_dc_region_intensity and calculate_average_dc_carbon_intensity not called.
DcIdle ==
    /\ dc_data_csv = << >>
    /\ region_name = ""
    /\ intensity = NaN

\* Python's None, and a value that is given, for an optional argument.
None == << >>

Given(x) == << x >>

\* calculate_steps not called.
StepsIdle ==
    /\ configs = << >>
    /\ frac = None
    /\ to_first = FALSE
    /\ info = << >>
    /\ savings = << >>

\* The other functions not called.
FnIdle == DcIdle /\ StepsIdle

\* The notebook's globals before any cell has assigned them.
NotebookIdle ==
    /\ EVAL_PARAMS = [emissions_factor |-> 0]
    /\ plot_configs = << >>
    /\ cluster_savings = 0
    /\ cluster_dc_fraction = NaN
    /\ dc_savings = 0
    /\ CI_steps = << >>
    /\ override_params = [emissions_factor |-> 0]
    /\ trace_config_data = << >>
    /\ config_carbon_savings = << >>
    /\ config_idx = 0
    /\ step_idx = 0

InitCsv ==
    /\ pc = "call"
    /\ cluster_data \in Tables
    /\ og_config \in Designs
    /\ new_config \in Designs
    /\ args = NoArgs
    /\ df = << >>
    /\ avg = NaN
    /\ NotebookIdle
    /\ FnIdle

\* What a call leaves behind: the results, or an exception.
ReturnOrRaise(r, params, buffer, weight_cluster) ==
    /\ args' = [params |-> params, buffer |-> buffer, weight_cluster |-> weight_cluster]
    /\ df' = IF r.status = "ok" THEN r.df ELSE df
    /\ avg' = IF r.status = "ok" THEN r.value ELSE avg
    /\ pc' = IF r.status = "ok" THEN "returned" ELSE "raised"

\* A caller runs process_csv on the files, with any parameters.
CallProcessCsv ==
    /\ pc = "call"
    /\ \E ef \in CsvCI, buffer \in BufferPercents, weight_cluster \in BOOLEAN :
          ReturnOrRaise(process_csv(cluster_data, og_config, new_config,
                                    [emissions_factor |-> ef], buffer, weight_cluster),
                        [emissions_factor |-> ef], buffer, weight_cluster)
    /\ UNCHANGED << cluster_data, og_config, new_config >>
    /\ UNCHANGED nb_vars
    /\ UNCHANGED fn_vars

NextCsv == CallProcessCsv

SpecCsv == InitCsv /\ [][NextCsv]_vars

(***************************************************************************)
(* The notebook: the cluster-savings, data-centre and carbon-intensity      *)
(* sweep cells, run top to bottom.  A cell that raises stops the run.       *)
(* Carbon intensities are counted in steps of 0.025 kgCO2e/kWh, the grid of *)
(* CI_steps.                                                                *)
(***************************************************************************)
AZURE_DC_PUE == 112

POWER_UTILIZATION == 66

FanSlopeValues == {3}

EvalCIValues == {1, 2}

\* plot_configs holds the baseline and three alternatives.
NumPlotConfigs == 4

\* The number of sweep steps (51 in the notebook).
NumSteps == 3

\* The designs the notebook's configuration files may stand for.
NotebookDesigns ==
    { d \in Designs : d.vcores = 1 /\ d.afr = 0 /\ d.embodied + d.energy > 0 }

NotebookRows == { Row(0, 0, 0), Row(100, 100, 0), Row(100, 50, 50), Row(100, 90, 0) }

NotebookTables == { t \in Tables : \A i \in DOMAIN t : t[i] \in NotebookRows }

\* The buffer=0.1 of the notebook's calls, as a key of BufferPercents.
NotebookBuffer == CHOOSE p \in BufferPercents : p * 10 = 100

\* ServerCarbon.get_rack_perc_operational(): the operational share of the
\* design's carbon, as a percentage.
get_rack_perc_operational(config, params) ==
    Quot(100 * get_operational_carbon(config, params),
         get_per_server_carbon(config, params))

\* round(x, 0) of a finite float: to the nearest whole number, ties to even.
RoundHalfEven(x) ==
    LET q == x.n \div x.d
        r == x.n - q * x.d
    IN  IF 2 * r < x.d THEN q
        ELSE IF 2 * r > x.d THEN q + 1
        ELSE IF q % 2 = 0 THEN q ELSE q + 1

\* int(round(x, 0)): raises on NaN and on an infinity.
IntRound(x) ==
    IF IsNaN(x) THEN [status |-> "ValueError", value |-> 0]
    ELSE IF IsInf(x) THEN [status |-> "OverflowError", value |-> 0]
    ELSE [status |-> "ok", value |-> RoundHalfEven(x)]

\* The breakdown figures, in thousandths.
operational_it == 868

embodied_it == 948

operational_compute_of_it == 779

embodied_compute_of_it == 442

\* In millionths.
compute_operational == operational_it * operational_compute_of_it

compute_embodied == embodied_it * embodied_compute_of_it

\* The operational and embodied shares the wrong way round.
DcFractionSwapped(baseline_operational_fraction) ==
    QDivInt(QAdd(QScale(baseline_operational_fraction, compute_embodied),
                 QScale(QAdd(QInt(1), QScale(baseline_operational_fraction, -1)),
                        compute_operational)),
            1000000)

dc_fraction(baseline_operational_fraction) ==
    QDivInt(QAdd(QScale(baseline_operational_fraction, compute_operational),
                 QScale(QAdd(QInt(1), QScale(baseline_operational_fraction, -1)),
                        compute_embodied)),
            1000000)

\* The dictionary left as it is.
KeepEmissionsFactor(params, step) == params

\* The step written under the wrong key.
SetPUE(params, step) == [params EXCEPT !.PUE = step]

\* The sweep one step ahead of CI_steps.
SetNextStep(params, step) == [params EXCEPT !.emissions_factor = step + 1]

\* params["emissions_factor"] = step
set_emissions_factor(params, step) == [params EXCEPT !.emissions_factor = step]

Init ==
    /\ pc = "cluster_savings"
    /\ cluster_data \in NotebookTables
    /\ EVAL_PARAMS \in [emissions_factor : EvalCIValues, PUE : {AZURE_DC_PUE},
                        power_factor : {POWER_UTILIZATION}, fan_slope : FanSlopeValues]
    /\ plot_configs \in [1..NumPlotConfigs -> NotebookDesigns]
    /\ og_config = plot_configs[1]
    /\ new_config = plot_configs[NumPlotConfigs]
    /\ args = NoArgs
    /\ df = << >>
    /\ avg = NaN
    /\ cluster_savings = 0
    /\ cluster_dc_fraction = NaN
    /\ dc_savings = 0
    /\ CI_steps = << >>
    /\ override_params = [emissions_factor |-> 0]
    /\ trace_config_data = << >>
    /\ config_carbon_savings = << >>
    /\ config_idx = 0
    /\ step_idx = 0
    /\ FnIdle

\* df, avg_carbon = r; cluster_savings = int(round(avg_carbon, 0))
AssignClusterSavings(r) ==
    LET rounded == IntRound(r.value)
    IN  /\ df' = IF r.status = "ok" THEN r.df ELSE df
        /\ avg' = IF r.status = "ok" THEN r.value ELSE avg
        /\ cluster_savings' =
              IF r.status = "ok" /\ rounded.status = "ok"
              THEN rounded.value ELSE cluster_savings
        /\ pc' = IF r.status = "ok" /\ rounded.status = "ok"
                 THEN "dc_fraction" ELSE "error"

\* The cluster-savings cell.
ClusterSavingsCell ==
    /\ pc = "cluster_savings"
    /\ og_config' = plot_configs[1]
    /\ new_config' = plot_configs[NumPlotConfigs]
    /\ args' = [params |-> EVAL_PARAMS, buffer |-> NotebookBuffer, weight_cluster |-> TRUE]
    /\ AssignClusterSavings(process_csv(cluster_data, plot_configs[1],
                                        plot_configs[NumPlotConfigs], EVAL_PARAMS,
                                        NotebookBuffer, TRUE))
    /\ UNCHANGED << cluster_data, EVAL_PARAMS, plot_configs, cluster_dc_fraction,
                    dc_savings, CI_steps, override_params, trace_config_data,
                    config_carbon_savings, config_idx, step_idx >>
    /\ UNCHANGED fn_vars

\* baseline_operational_fraction and cluster_dc_fraction.
DcFractionCell ==
    /\ pc = "dc_fraction"
    /\ LET baseline_operational_fraction ==
               QDivInt(get_rack_perc_operational(plot_configs[1], EVAL_PARAMS), 100)
       IN  cluster_dc_fraction' = dc_fraction(baseline_operational_fraction)
    /\ pc' = "dc_savings"
    /\ UNCHANGED << csv_vars, EVAL_PARAMS, plot_configs, cluster_savings,
                    dc_savings, CI_steps, override_params, trace_config_data,
                    config_carbon_savings, config_idx, step_idx >>
    /\ UNCHANGED fn_vars

\* dc_savings = int(round(cluster_savings * cluster_dc_fraction, 0))
DcSavingsCell ==
    /\ pc = "dc_savings"
    /\ LET rounded == IntRound(QScale(cluster_dc_fraction, cluster_savings))
       IN  /\ dc_savings' = IF rounded.status = "ok" THEN rounded.value ELSE dc_savings
           /\ pc' = IF rounded.status = "ok" THEN "sweep" ELSE "error"
    /\ UNCHANGED << csv_vars, EVAL_PARAMS, plot_configs, cluster_savings,
                    cluster_dc_fraction, CI_steps, override_params,
                    trace_config_data, config_carbon_savings, config_idx, step_idx >>
    /\ UNCHANGED fn_vars

\* CI_steps, trace_config_data and override_params, and the entry of the loop.
SweepCell ==
    /\ pc = "sweep"
    /\ CI_steps' = [i \in 1..NumSteps |-> i - 1]
    /\ trace_config_data' = << >>
    /\ override_params' = EVAL_PARAMS
    /\ config_idx' = 2
    /\ pc' = "for_config"
    /\ UNCHANGED << csv_vars, EVAL_PARAMS, plot_configs, cluster_savings,
                    cluster_dc_fraction, dc_savings, config_carbon_savings, step_idx >>
    /\ UNCHANGED fn_vars

\* for config in plot_configs[1:]: config_carbon_savings = []
ForConfig ==
    /\ pc = "for_config"
    /\ config_idx <= Len(plot_configs)
    /\ config_carbon_savings' = << >>
    /\ step_idx' = 1
    /\ pc' = "for_step"
    /\ UNCHANGED << csv_vars, EVAL_PARAMS, plot_configs, cluster_savings,
                    cluster_dc_fraction, dc_savings, CI_steps, override_params,
                    trace_config_data, config_idx >>
    /\ UNCHANGED fn_vars

\* The loop over plot_configs[1:] is exhausted.
ForConfigEnd ==
    /\ pc = "for_config"
    /\ config_idx > Len(plot_configs)
    /\ pc' = "done"
    /\ UNCHANGED << csv_vars, nb_vars >>
    /\ UNCHANGED fn_vars

\* config_carbon_savings.append(carbon_saving), or the exception of the call.
AppendSaving(r) ==
    /\ config_carbon_savings' =
          IF r.status = "ok" THEN Append(config_carbon_savings, r.value)
          ELSE config_carbon_savings
    /\ step_idx' = IF r.status = "ok" THEN step_idx + 1 ELSE step_idx
    /\ pc' = IF r.status = "ok" THEN "for_step" ELSE "error"

\* One turn of the loop over CI_steps.
ForStep ==
    /\ pc = "for_step"
    /\ step_idx <= Len(CI_steps)
    /\ override_params' = set_emissions_factor(override_params, CI_steps[step_idx])
    /\ og_config' = plot_configs[1]
    /\ new_config' = plot_configs[config_idx]
    /\ args' = [params |-> override_params', buffer |-> NotebookBuffer,
                weight_cluster |-> TRUE]
    /\ AppendSaving(process_csv(cluster_data, plot_configs[1], plot_configs[config_idx],
                                override_params', NotebookBuffer, TRUE))
    /\ UNCHANGED << cluster_data, df, avg, EVAL_PARAMS, plot_configs, cluster_savings,
                    cluster_dc_fraction, dc_savings, CI_steps, trace_config_data,
                    config_idx >>
    /\ UNCHANGED fn_vars

\* The loop over CI_steps is exhausted: trace_config_data.append({...})
ForStepEnd ==
    /\ pc = "for_step"
    /\ step_idx > Len(CI_steps)
    /\ trace_config_data' =
          Append(trace_config_data,
                 [config |-> config_idx, carbon_savings |-> config_carbon_savings])
    /\ config_idx' = config_idx + 1
    /\ pc' = "for_config"
    /\ UNCHANGED << csv_vars, EVAL_PARAMS, plot_configs, cluster_savings,
                    cluster_dc_fraction, dc_savings, CI_steps, override_params,
                    config_carbon_savings, step_idx >>
    /\ UNCHANGED fn_vars

Next ==
    \/ ClusterSavingsCell
    \/ DcFractionCell
    \/ DcSavingsCell
    \/ SweepCell
    \/ ForConfig
    \/ ForConfigEnd
    \/ ForStep
    \/ ForStepEnd

Spec == Init /\ [][Next]_vars

(***************************************************************************)
(* What the last call of process_csv was given and what it computed.        *)
(***************************************************************************)
Returned == pc = "returned"

OgCarbon == get_per_server_carbon(og_config, args.params)

NewCarbon == get_per_server_carbon(new_config, args.params)

\* The cores of row r of df.
RowCores(r) ==
    r.NewClusterSize_Baseline * get_vcores(og_config)
        + r.NewClusterSize_GreenSKU * get_vcores(new_config)

\* The smallest integer >= a / b, for a >= 0 and b > 0.
CeilDiv(a, b) == (a + b - 1) \div b

AllFinite == \A i \in 1..Len(df) : IsFinite(df[i].perc_saved_carbon)

(***************************************************************************)
(* C1.  For every row with a non-zero baseline total, perc_saved_carbon is  *)
(* (baseline_total - mixed_total) * 100 / baseline_total, where the         *)
(* baseline total charges OriginalClusterSize + buffer_og baseline servers  *)
(* and the mixed total charges NewClusterSize_Baseline + buffer servers at  *)
(* the baseline's carbon and overhead and NewClusterSize_GreenSKU servers   *)
(* at the alternative's.                                                    *)
(***************************************************************************)
C1_PercFormula ==
    Returned =>
        \A i \in 1..Len(df) :
            LET r == df[i]
                baseline_total ==
                    (r.OriginalClusterSize + r.num_og_buffer) * OgCarbon
                        * (AfrDen + og_config.afr)
                mixed_total ==
                    (r.NewClusterSize_Baseline + r.total_num_buffer) * OgCarbon
                        * (AfrDen + og_config.afr)
                    + r.NewClusterSize_GreenSKU * NewCarbon
                        * (AfrDen + new_config.afr)
            IN  baseline_total # 0 =>
                    r.perc_saved_carbon
                        = Quot((baseline_total - mixed_total) * 100, baseline_total)

C1_Witness ==
    /\ Returned
    /\ \E i \in 1..Len(df) :
          /\ df[i].start_og_carbon # 0
          /\ df[i].total_num_buffer > 0
          /\ df[i].NewClusterSize_GreenSKU > 0
          /\ OgCarbon # NewCarbon
          /\ og_config.afr # new_config.afr
          /\ IsFinite(df[i].perc_saved_carbon)
          /\ df[i].perc_saved_carbon.n > 0

(***************************************************************************)
(* C2.  The baseline-only buffer is the smallest whole number >=            *)
(* OriginalClusterSize * buffer_fraction; an exact multiple gives exactly   *)
(* that multiple.  The buffer fraction is the decimal fraction p / 100, as  *)
(* in "100 with 0.1 gives 10"; process_csv takes the ceiling of the float   *)
(* product instead.                                                         *)
(***************************************************************************)
C2_BufferIsCeiling ==
    Returned =>
        \A i \in 1..Len(df) :
            df[i].num_og_buffer
                = CeilDiv(df[i].OriginalClusterSize * args.buffer, 100)

(***************************************************************************)
(* C3.  The mixed-cluster buffer is ceil(buffer_fraction * cores /          *)
(* cores(baseline)) for the cores of the mixed cluster, and equals the      *)
(* baseline-only buffer when the mixed cluster holds the cores of           *)
(* OriginalClusterSize baseline servers.  process_csv takes the ceiling of  *)
(* a float product and quotient instead.                                    *)
(***************************************************************************)
C3_MixedBufferFormula ==
    Returned =>
        \A i \in 1..Len(df) :
            /\ df[i].total_num_buffer
                  = CeilDiv(args.buffer * RowCores(df[i]), 100 * get_vcores(og_config))
            /\ RowCores(df[i]) = df[i].OriginalClusterSize * get_vcores(og_config)
                  => df[i].total_num_buffer = df[i].num_og_buffer

(***************************************************************************)
(* C4.  A call on a table holding a row whose baseline total is zero fails  *)
(* with an error: it never returns, so no percentage (a number or NaN) is   *)
(* produced for such a row and no rollup includes it.  pandas divides by    *)
(* zero without raising.                                                    *)
(***************************************************************************)
C4_ZeroBaselineRaises ==
    Returned => \A i \in 1..Len(df) : df[i].start_og_carbon # 0

(***************************************************************************)
(* C5.  Over a table of per-row percentages, the call returns their         *)
(* arithmetic mean when weight_cluster is False and their mean weighted by  *)
(* OriginalClusterSize when it is True; percentages 10 and 30 with sizes    *)
(* 100 and 300 give 25 weighted and 20 unweighted.  A table of percentages  *)
(* is a table of numbers: rows whose percentage is NaN or infinite are the  *)
(* subject of C4.                                                           *)
(***************************************************************************)
C5_Rollups ==
    (Returned /\ AllFinite) =>
        LET percs == Column(df, "perc_saved_carbon")
            sizes == Column(df, "OriginalClusterSize")
        IN  /\ args.weight_cluster =>
                  QScale(avg, SumInts(sizes))
                      = QSum([i \in 1..Len(df) |-> QScale(percs[i], sizes[i])])
            /\ ~args.weight_cluster => QScale(avg, Len(df)) = QSum(percs)
            /\ (percs = << QInt(10), QInt(30) >> /\ sizes = << 100, 300 >>) =>
                  avg = IF args.weight_cluster THEN QInt(25) ELSE QInt(20)

C5_Witness ==
    /\ Returned
    /\ args.weight_cluster
    /\ Column(df, "perc_saved_carbon") = << QInt(10), QInt(30) >>
    /\ Column(df, "OriginalClusterSize") = << 100, 300 >>
    /\ avg = QInt(25)

(***************************************************************************)
(* C6.  Identity: with the alternative design equal to the baseline design  *)
(* and every row keeping its server count (NewClusterSize_Baseline +        *)
(* NewClusterSize_GreenSKU = OriginalClusterSize > 0) every percentage and  *)
(* the returned rollup are 0.  Checked for designs of non-zero carbon, so   *)
(* that no division by zero is involved.                                    *)
(***************************************************************************)
C6_Identity ==
    ( /\ Returned
      /\ new_config = og_config
      /\ OgCarbon > 0
      /\ \A i \in 1..Len(df) :
            /\ df[i].OriginalClusterSize > 0
            /\ df[i].NewClusterSize_Baseline + df[i].NewClusterSize_GreenSKU
                  = df[i].OriginalClusterSize )
    => /\ \A i \in 1..Len(df) : df[i].perc_saved_carbon = QInt(0)
       /\ avg = QInt(0)

(***************************************************************************)
(* C7.  Monotonicity.  Two rows of one call with the same                   *)
(* OriginalClusterSize and the same cores, the alternative's per-core       *)
(* carbon below the baseline's: the row with more GreenSKU servers has no   *)
(* smaller percentage.  C7_Monotone is the claim as stated (whatever the    *)
(* failure rates); C7_MonotoneWithOverhead compares the per-core carbon     *)
(* with the maintenance overhead of each design included.                   *)
(***************************************************************************)
SameLoad(i, j) ==
    /\ df[i].OriginalClusterSize = df[j].OriginalClusterSize
    /\ RowCores(df[i]) = RowCores(df[j])
    /\ df[i].NewClusterSize_GreenSKU > df[j].NewClusterSize_GreenSKU

C7_Monotone ==
    (Returned /\ NewCarbon * get_vcores(og_config) < OgCarbon * get_vcores(new_config)) =>
        \A i, j \in 1..Len(df) :
            SameLoad(i, j) => QLeq(df[j].perc_saved_carbon, df[i].perc_saved_carbon)

C7_MonotoneWithOverhead ==
    ( /\ Returned
      /\ NewCarbon * maintenance_overhead(new_config) * get_vcores(og_config)
            < OgCarbon * maintenance_overhead(og_config) * get_vcores(new_config) )
    => \A i, j \in 1..Len(df) :
            SameLoad(i, j) => QLeq(df[j].perc_saved_carbon, df[i].perc_saved_carbon)

C7_Witness ==
    /\ Returned
    /\ NewCarbon * maintenance_overhead(new_config) * get_vcores(og_config)
          < OgCarbon * maintenance_overhead(og_config) * get_vcores(new_config)
    /\ new_config.afr > og_config.afr
    /\ \E i, j \in 1..Len(df) :
          /\ SameLoad(i, j)
          /\ QLeq(df[j].perc_saved_carbon, df[i].perc_saved_carbon)
          /\ df[j].perc_saved_carbon # df[i].perc_saved_carbon

(***************************************************************************)
(* C9.  The overhead 1 + AFR adds only embodied carbon: a row's mixed total *)
(* exceeds its total at AFR = 0 by AFR * servers * embodied carbon per      *)
(* server, design by design.  Totals are in units of 1 / AfrDen.            *)
(***************************************************************************)
C9_OverheadOnlyEmbodied ==
    Returned =>
        \A i \in 1..Len(df) :
            LET r == df[i]
                og_servers == r.NewClusterSize_Baseline + r.total_num_buffer
                at_zero_afr == og_servers * OgCarbon + r.NewClusterSize_GreenSKU * NewCarbon
            IN  r.total_carbon - AfrDen * at_zero_afr
                    = og_config.afr * og_servers * og_config.embodied
                      + new_config.afr * r.NewClusterSize_GreenSKU * new_config.embodied

(***************************************************************************)
(* The notebook once the data-centre cell has run.                          *)
(***************************************************************************)
PastDcSavings == pc \in {"sweep", "for_config", "for_step", "done"}

\* The baseline's operational share, a fraction of 1.
BaselineShare ==
    QDivInt(get_rack_perc_operational(plot_configs[1], EVAL_PARAMS), 100)

\* x is within 0.05 of one half.
AboutHalf(x) == IsFinite(x) /\ 10 * Abs(2 * x.n - x.d) <= x.d

(***************************************************************************)
(* C8.  dc_savings is cluster_savings times the blended fraction            *)
(* compute_operational * share + compute_embodied * (1 - share), rounded to *)
(* the nearest integer, the share being the baseline design's operational   *)
(* share; cluster savings of 14 and a fraction of about 0.5 give 7 within   *)
(* 1; and |dc_savings| never exceeds |cluster_savings|.                     *)
(***************************************************************************)
C8_DcSavings ==
    PastDcSavings =>
        LET s == BaselineShare
            blended == compute_operational * s.n + compute_embodied * (s.d - s.n)
            fraction == Quot(blended, s.d * 1000000)
        IN  /\ cluster_dc_fraction = fraction
            /\ dc_savings
                  = RoundHalfEven(Quot(cluster_savings * blended, s.d * 1000000))
            /\ (cluster_savings = 14 /\ AboutHalf(fraction)) => Abs(dc_savings - 7) <= 1
            /\ Abs(dc_savings) <= Abs(cluster_savings)

C8_Witness ==
    /\ PastDcSavings
    /\ cluster_savings = 14
    /\ AboutHalf(cluster_dc_fraction)
    /\ dc_savings = 7
    /\ plot_configs[NumPlotConfigs] # plot_configs[1]

(***************************************************************************)
(* C10.  When the sweep has finished, every alternative of plot_configs has *)
(* one series in trace_config_data, in the order of plot_configs; a series  *)
(* holds one value per step of CI_steps, in the ascending order of          *)
(* CI_steps, and its i-th value is the size-weighted rollup of process_csv  *)
(* for the baseline and that alternative with emissions_factor =            *)
(* CI_steps[i] and the buffer fraction 0.1.                                 *)
(***************************************************************************)
C10_SweepSeries ==
    pc = "done" =>
        /\ Len(trace_config_data) = Len(plot_configs) - 1
        /\ \A i \in 1..(Len(CI_steps) - 1) : CI_steps[i] < CI_steps[i + 1]
        /\ \A k \in 1..Len(trace_config_data) :
              LET series == trace_config_data[k].carbon_savings
              IN  /\ trace_config_data[k].config = k + 1
                  /\ Len(series) = Len(CI_steps)
                  /\ \A i \in 1..Len(series) :
                        series[i]
                          = process_csv(cluster_data, plot_configs[1], plot_configs[k + 1],
                                        [emissions_factor |-> CI_steps[i]],
                                        NotebookBuffer, TRUE).value

C10_Witness ==
    /\ pc = "done"
    /\ \E k \in 1..Len(trace_config_data) :
          LET series == trace_config_data[k].carbon_savings
          IN  /\ Len(series) = NumSteps
              /\ \A i \in 1..Len(series) : IsFinite(series[i])
              /\ \A i \in 1..(Len(series) - 1) : series[i] # series[i + 1]

(***************************************************************************)
(* C11.  No step changes EVAL_PARAMS, and every call of process_csv that    *)
(* the sweep makes is given EVAL_PARAMS with only emissions_factor          *)
(* replaced, by the step of CI_steps the loop is at: PUE, power_factor and  *)
(* fan_slope keep their EVAL_PARAMS values and no emissions_factor of an    *)
(* earlier step or design is used.                                          *)
(***************************************************************************)
SweepCall == pc = "for_step" /\ step_idx <= Len(CI_steps)

C11_ParamsFrame ==
    [][ /\ EVAL_PARAMS' = EVAL_PARAMS
        /\ SweepCall =>
              /\ args'.params = [EVAL_PARAMS EXCEPT !.emissions_factor = CI_steps[step_idx]]
              /\ args'.params.PUE = EVAL_PARAMS.PUE
              /\ args'.params.power_factor = EVAL_PARAMS.power_factor
              /\ args'.params.fan_slope = EVAL_PARAMS.fan_slope ]_vars

C11_Witness ==
    /\ pc = "done"
    /\ Len(trace_config_data) = NumPlotConfigs - 1
    /\ args.params.emissions_factor = CI_steps[NumSteps]
    /\ args.params.emissions_factor # EVAL_PARAMS.emissions_factor
    /\ override_params # EVAL_PARAMS
    /\ args.params.PUE = AZURE_DC_PUE

(***************************************************************************)
(* The sweep's series of an alternative, and the savings of the two designs *)
(* with their operational carbon taken away.                                *)
(***************************************************************************)
Series(k) == trace_config_data[k].carbon_savings

EmbodiedOnly(config) == [config EXCEPT !.energy = 0]

EmbodiedOnlySavings(k) ==
    process_csv(cluster_data, EmbodiedOnly(plot_configs[1]),
                EmbodiedOnly(plot_configs[k + 1]), EVAL_PARAMS, NotebookBuffer, TRUE).value

\* The alternative's operational carbon, relative to the baseline's, is at
\* least its embodied carbon relative to the baseline's.
OperationalHeavier(k) ==
    plot_configs[k + 1].energy * plot_configs[1].embodied
        >= plot_configs[k + 1].embodied * plot_configs[1].energy

Regions == {"useast", "ussouth"}

RegionNames == Regions \cup {"nowhere"}

RenewablePercents == {0, 50, 100}

RenewableIntensities == {0, 100}

GridIntensities == {400, 700}

DcRecords ==
    [Region : Regions, RenewablePct : RenewablePercents,
     AvgRenewableIntensity : RenewableIntensities,
     AvgGridIntensity : GridIntensities]

MaxRecords == 2

DcFiles == UNION { [1..n -> DcRecords] : n \in 0..MaxRecords }

\* The column with the renewable and the grid intensity exchanged.
CarbonIntensitySwapped(rec) ==
    Quot(rec.RenewablePct * rec.AvgGridIntensity
             + (100 - rec.RenewablePct) * rec.AvgRenewableIntensity,
         100 * 1000)

\* dc_data['carbon_intensity'] of one record, after the division by 1000.
carbon_intensity(rec) ==
    Quot(rec.RenewablePct * rec.AvgRenewableIntensity
             + (100 - rec.RenewablePct) * rec.AvgGridIntensity,
         100 * 1000)

\* dc_data[dc_data['Region'] == region_name]: the records kept, in order.
RegionRows(dc_data, region) ==
    SelectSeq2(dc_data, [i \in 1..Len(dc_data) |-> dc_data[i].Region = region])

\* get_dc_region_intensity: .values[0] of an empty selection raises
\* IndexError.
get_dc_region_intensity(region, dc_data) ==
    LET rows == RegionRows(dc_data, region)
    IN  IF rows = << >> THEN [status |-> "IndexError", value |-> NaN]
        ELSE [status |-> "ok", value |-> carbon_intensity(rows[1])]

\* calculate_average_dc_carbon_intensity: the mean of the column.
calculate_average_dc_carbon_intensity(dc_data) ==
    SeriesMean([i \in 1..Len(dc_data) |-> carbon_intensity(dc_data[i])])

\* process_csv not called.
CsvIdle ==
    /\ cluster_data = << >>
    /\ og_config = [embodied |-> 0, energy |-> 0, vcores |-> 1, afr |-> 0]
    /\ new_config = [embodied |-> 0, energy |-> 0, vcores |-> 1, afr |-> 0]
    /\ args = NoArgs
    /\ df = << >>
    /\ avg = NaN

InitRegion ==
    /\ pc = "call_dc"
    /\ dc_data_csv \in DcFiles
    /\ region_name \in RegionNames
    /\ intensity = NaN
    /\ StepsIdle
    /\ CsvIdle
    /\ NotebookIdle

\* What a call of get_dc_region_intensity leaves behind.
RegionReturnOrRaise(r) ==
    /\ intensity' = IF r.status = "ok" THEN r.value ELSE intensity
    /\ pc' = IF r.status = "ok" THEN "dc_returned" ELSE r.status

CallGetDcRegionIntensity ==
    /\ pc = "call_dc"
    /\ RegionReturnOrRaise(get_dc_region_intensity(region_name, dc_data_csv))
    /\ UNCHANGED << dc_data_csv, region_name, configs, frac, to_first, info, savings >>
    /\ UNCHANGED << csv_vars, nb_vars >>

CallCalculateAverage ==
    /\ pc = "call_dc"
    /\ intensity' = calculate_average_dc_carbon_intensity(dc_data_csv)
    /\ pc' = "mean_returned"
    /\ UNCHANGED << dc_data_csv, region_name, configs, frac, to_first, info, savings >>
    /\ UNCHANGED << csv_vars, nb_vars >>

NextRegion == CallGetDcRegionIntensity \/ CallCalculateAverage

SpecRegion == InitRegion /\ [][NextRegion]_vars

(***************************************************************************)
(* C13.  get_dc_region_intensity returns, for the first record of the       *)
(* requested region, renewable fraction * renewable intensity +             *)
(* (1 - renewable fraction) * grid intensity, divided by 1000; it fails     *)
(* with IndexError, a LookupError, exactly when no record has the region;   *)
(* and the file's records are the same after the call as before.            *)
(***************************************************************************)
FirstOfRegion(i) ==
    /\ i \in 1..Len(dc_data_csv)
    /\ dc_data_csv[i].Region = region_name
    /\ \A j \in 1..(i - 1) : dc_data_csv[j].Region # region_name

\* 1000 times the claimed intensity is pct/100 * renewable + (1 - pct/100) * grid.
ClaimedIntensity(i) ==
    /\ IsFinite(intensity)
    /\ intensity.n * 100 * 1000
          = intensity.d * (dc_data_csv[i].RenewablePct * dc_data_csv[i].AvgRenewableIntensity
                             + (100 - dc_data_csv[i].RenewablePct) * dc_data_csv[i].AvgGridIntensity)

RegionAbsent == \A i \in 1..Len(dc_data_csv) : dc_data_csv[i].Region # region_name

C13_RegionOutcome ==
    /\ pc = "dc_returned" => \E i \in 1..Len(dc_data_csv) : FirstOfRegion(i) /\ ClaimedIntensity(i)
    /\ pc = "IndexError" => RegionAbsent /\ intensity = NaN

C13_RegionIntensity ==
    /\ []C13_RegionOutcome
    /\ [][dc_data_csv' = dc_data_csv /\ region_name' = region_name]_vars

C13_Witness ==
    /\ pc = "dc_returned"
    /\ Len(dc_data_csv) = 2
    /\ dc_data_csv[1].Region # region_name
    /\ FirstOfRegion(2)
    /\ dc_data_csv[2].RenewablePct = 50
    /\ dc_data_csv[2].AvgRenewableIntensity = 100
    /\ dc_data_csv[2].AvgGridIntensity = 700
    /\ intensity = Quot(2, 5)

(***************************************************************************)
(* process_csv on a file that may hold negative sizes.                      *)
(***************************************************************************)
SignedTables == UNION { [1..n -> SignedRowSet] : n \in 0..MaxRows }

InitCsvSigned ==
    /\ pc = "call"
    /\ cluster_data \in SignedTables
    /\ og_config \in Designs
    /\ new_config \in Designs
    /\ args = NoArgs
    /\ df = << >>
    /\ avg = NaN
    /\ NotebookIdle
    /\ FnIdle

SpecCsvSigned == InitCsvSigned /\ [][NextCsv]_vars

(***************************************************************************)
(* C14.  process_csv rejects a row with a negative OriginalClusterSize,     *)
(* NewClusterSize_Baseline or NewClusterSize_GreenSKU with an input error:  *)
(* no call returns a data frame in which such a row carries a percentage    *)
(* that is a number, and so none enters a returned rollup.                  *)
(***************************************************************************)
NegativeRow(row) ==
    \/ row.OriginalClusterSize < 0
    \/ row.NewClusterSize_Baseline < 0
    \/ row.NewClusterSize_GreenSKU < 0

C14_NegativeRejected ==
    pc = "returned" =>
        \A i \in 1..Len(df) : NegativeRow(cluster_data[i]) => ~IsFinite(df[i].perc_saved_carbon)

(***************************************************************************)
(* calculate_steps.  ServerCarbon is imported; a configuration is seen      *)
(* through the three per-core getters only, and is the record of what they  *)
(* report.  frac is held in quarters, which are exact in binary64, and a    *)
(* savings value as a float quotient (an int k as k / 1).                   *)
(***************************************************************************)
Metrics == {"operational", "embodied", "carbon"}

PerCore(o, e, c) == [operational |-> o, embodied |-> e, carbon |-> c]

PerCoreFigures ==
    { PerCore(8, 8, 16), PerCore(3, 8, 11), PerCore(8, 3, 11),
      PerCore(0, 8, 8), PerCore(4, 4, 8) }

MaxConfigs == 3

ConfigLists == UNION { [1..n -> PerCoreFigures] : n \in 0..MaxConfigs }

FracDen == 4

FracValues == {None, Given(1), Given(2)}

get_operational_per_sellable_core(config) == config.operational

get_embodied_per_sellable_core(config) == config.embodied

get_carbon_per_sellable_core(config) == config.carbon

\* info_dict of one configuration.
info_dict(config) ==
    [operational |-> get_operational_per_sellable_core(config),
     embodied    |-> get_embodied_per_sellable_core(config),
     carbon      |-> get_carbon_per_sellable_core(config)]

\* The reference with to_first and its negation exchanged.
ReferenceSwapped(all_info, i, first) == IF first THEN all_info[i - 1] ELSE all_info[1]

\* all_info[0] if to_first, else all_info[i-1] (positions from 1 here).
Reference(all_info, i, first) == IF first THEN all_info[1] ELSE all_info[i - 1]

\* int(round((ref - v)*100 / ref, 0)): the division raises on a zero ref.
StepSaving(ref, v) ==
    IF ref = 0 THEN [status |-> "ZeroDivisionError", value |-> 0]
    ELSE IntRound(Quot((ref - v) * 100, ref))

\* savings_dict['operational'] * frac + savings_dict['embodied'] * (1-frac).
Blend(operational, embodied, quarters) ==
    Quot(operational * quarters + embodied * (FracDen - quarters), FracDen)

\* savings_dict of configuration i, the three savings of the loop given.
SavingsDict(op, emb, carbon, fraction) ==
    [operational |-> QInt(op), embodied |-> QInt(emb),
     carbon |-> IF fraction = None THEN QInt(carbon) ELSE Blend(op, emb, fraction[1])]

\* The three steps of configuration i > 1: [status, value] each.
StepsOf(ref, v) == [k \in Metrics |-> StepSaving(ref[k], v[k])]

StepsFailed(steps) == \E k \in Metrics : steps[k].status # "ok"

\* One turn of the loop over configs.
SavingsAt(all_info, i, fraction, first) ==
    IF i = 1 THEN SavingsDict(0, 0, 0, fraction)
    ELSE SavingsDict(StepsOf(Reference(all_info, i, first), all_info[i]).operational.value,
                     StepsOf(Reference(all_info, i, first), all_info[i]).embodied.value,
                     StepsOf(Reference(all_info, i, first), all_info[i]).carbon.value,
                     fraction)

\* The call: [status, info, savings].
calculate_steps(cfgs, fraction, first) ==
    IF \E i \in 2..Len(cfgs) :
          StepsFailed(StepsOf(Reference([j \in 1..Len(cfgs) |-> info_dict(cfgs[j])], i, first),
                              info_dict(cfgs[i])))
    THEN [status |-> "raised", info |-> << >>, savings |-> << >>]
    ELSE [status  |-> "ok",
          info    |-> [j \in 1..Len(cfgs) |-> info_dict(cfgs[j])],
          savings |-> [i \in 1..Len(cfgs) |->
                          SavingsAt([j \in 1..Len(cfgs) |-> info_dict(cfgs[j])], i, fraction, first)]]

InitSteps ==
    /\ pc = "call_steps"
    /\ configs \in ConfigLists
    /\ frac \in FracValues
    /\ to_first \in BOOLEAN
    /\ info = << >>
    /\ savings = << >>
    /\ DcIdle
    /\ CsvIdle
    /\ NotebookIdle

\* What a call of calculate_steps leaves behind.
StepsReturnOrRaise(r) ==
    /\ info' = IF r.status = "ok" THEN r.info ELSE info
    /\ savings' = IF r.status = "ok" THEN r.savings ELSE savings
    /\ pc' = IF r.status = "ok" THEN "steps_returned" ELSE "steps_raised"

CallCalculateSteps ==
    /\ pc = "call_steps"
    /\ StepsReturnOrRaise(calculate_steps(configs, frac, to_first))
    /\ UNCHANGED << configs, frac, to_first, dc_data_csv, region_name, intensity >>
    /\ UNCHANGED << csv_vars, nb_vars >>

NextSteps == CallCalculateSteps

SpecSteps == InitSteps /\ [][NextSteps]_vars

(***************************************************************************)
(* C15.  calculate_steps returns one info and one savings record per        *)
(* config, in input order; the savings of config 0 are 0; for every later   *)
(* config each metric's savings are (ref - v) * 100 / ref rounded to an     *)
(* integer, ref being config 0 under to_first and the config before         *)
(* otherwise; a zero reference makes the call fail.  C15_StepSavings says   *)
(* so for the three metrics whatever frac is.  C15_StepSavingsWithFrac      *)
(* says so for operational and embodied, and for carbon when frac is None;  *)
(* when frac is given the carbon savings are the blend operational          *)
(* savings * frac + embodied savings * (1 - frac).                          *)
(***************************************************************************)
StepsReturned == pc = "steps_returned"

\* r is num / den rounded to the nearest integer, ties to the even one.
IsRounded(r, num, den) ==
    /\ 2 * Abs(r * den - num) <= Abs(den)
    /\ 2 * Abs(r * den - num) = Abs(den) => r % 2 = 0

\* The metric of the reference of config i (positions from 1).
RefMetric(i, k) == IF to_first THEN configs[1][k] ELSE configs[i - 1][k]

\* The savings of config i in metric k are the rounded step.
IsStep(i, k) ==
    /\ savings[i][k].d = 1
    /\ IsRounded(savings[i][k].n, (RefMetric(i, k) - configs[i][k]) * 100, RefMetric(i, k))

ZeroReference == \E i \in 2..Len(configs), k \in Metrics : RefMetric(i, k) = 0

OnePerConfig ==
    /\ Len(info) = Len(configs)
    /\ Len(savings) = Len(configs)
    /\ \A i \in 1..Len(configs), k \in Metrics : info[i][k] = configs[i][k]
    /\ Len(configs) >= 1 => \A k \in Metrics : savings[1][k] = QInt(0)

C15_StepSavings ==
    /\ StepsReturned =>
          /\ OnePerConfig
          /\ \A i \in 2..Len(configs), k \in Metrics : IsStep(i, k)
    /\ ZeroReference => ~StepsReturned

C15_StepSavingsWithFrac ==
    /\ StepsReturned =>
          /\ OnePerConfig
          /\ \A i \in 2..Len(configs) :
                /\ IsStep(i, "operational")
                /\ IsStep(i, "embodied")
                /\ frac = None => IsStep(i, "carbon")
                /\ frac # None =>
                      savings[i].carbon.n * FracDen
                         = savings[i].carbon.d
                              * (savings[i].operational.n * frac[1]
                                    + savings[i].embodied.n * (FracDen - frac[1]))
    /\ ZeroReference => ~StepsReturned

C15_Witness ==
    /\ StepsReturned
    /\ to_first
    /\ frac = None
    /\ configs = << PerCore(8, 8, 16), PerCore(3, 8, 11), PerCore(8, 3, 11) >>
    /\ savings[2] = [operational |-> QInt(62), embodied |-> QInt(0), carbon |-> QInt(31)]
    /\ savings[3] = [operational |-> QInt(0), embodied |-> QInt(62), carbon |-> QInt(31)]

(***************************************************************************)
(* C16.  process_csv evaluates the OriginalClusterSize-weighted average on  *)
(* every call: when the weights sum to zero (no rows, or only rows of size  *)
(* 0) the call fails whether weight_cluster is True or False; a call that   *)
(* returns gives the rollup weight_cluster selects, the weighted average    *)
(* of the percentages when True and the mean of the percentages that are    *)
(* not NaN when False.                                                      *)
(***************************************************************************)
WeightsSumToZero == SumInts(Column(cluster_data, "OriginalClusterSize")) = 0

\* The positions of df whose percentage is not NaN.
Numbers == {i \in 1..Len(df) : ~IsNaN(df[i].perc_saved_carbon)}

C16_WeightedEvaluatedFirst ==
    /\ WeightsSumToZero => ~Returned
    /\ pc = "raised" => WeightsSumToZero
    /\ (Returned /\ args.weight_cluster) =>
          QScale(avg, SumInts(Column(df, "OriginalClusterSize")))
             = QSum([i \in 1..Len(df) |->
                        QScale(df[i].perc_saved_carbon, df[i].OriginalClusterSize)])
    /\ (Returned /\ ~args.weight_cluster) =>
          IF Numbers = {} THEN avg = NaN
          ELSE QScale(avg, Cardinality(Numbers))
                  = QSum(SelectSeq2(Column(df, "perc_saved_carbon"),
                                    [i \in 1..Len(df) |-> i \in Numbers]))

C16_Witness ==
    /\ pc = "raised"
    /\ ~args.weight_cluster
    /\ cluster_data = << Row(0, 0, 0), Row(0, 0, 0) >>
    /\ og_config.embodied > 0
    /\ df = << >>
====
